---- MODULE Spec2Model ----
(***************************************************************************)
(* Model of value_and_jacfwd.py: the tangent-propagation primitive _jvp    *)
(* and the public entry point value_and_jacfwd / jacfun.                   *)
(*                                                                         *)
(* A pytree is a record: a leaf [kind |-> "leaf", dtype, shape, data] or a *)
(* container [kind |-> "tuple" | "list", items].  A leaf's data is its     *)
(* row-major flattening.  Floating-point values are modelled by integers   *)
(* (exact arithmetic); a dtype is a class: "f" floating, "c" complex,      *)
(* "i" integer or boolean, "float0" the no-tangent dtype.                  *)
(***************************************************************************)
EXTENDS Integers, Sequences, FiniteSets, TLC

\* ------------------------------------------------------------- bounds
MaxLen == 3
MaxVal == 2

\* ------------------------------------------------------------- arrays
Leaf(d, sh, dat) == [kind |-> "leaf", dtype |-> d, shape |-> sh, data |-> dat]
Node(k, its) == [kind |-> k, items |-> its]

RECURSIVE Prod(_)
Prod(sh) == IF sh = <<>> THEN 1 ELSE Head(sh) * Prod(Tail(sh))

\* np.size of a leaf
Size(l) == Prod(l.shape)

RECURSIVE Flat(_)
Flat(ss) == IF ss = <<>> THEN <<>> ELSE Head(ss) \o Flat(Tail(ss))

RECURSIVE SumSeq(_)
SumSeq(s) == IF s = <<>> THEN 0 ELSE Head(s) + SumSeq(Tail(s))

\* tree_flatten: the leaves in flattened order
RECURSIVE tree_leaves(_)
tree_leaves(t) ==
  IF t.kind = "leaf" THEN <<t>>
  ELSE Flat([i \in 1..Len(t.items) |-> tree_leaves(t.items[i])])

\* tree_flatten: the structural descriptor
RECURSIVE tree_structure(_)
tree_structure(t) ==
  IF t.kind = "leaf" THEN [kind |-> "leaf", children |-> <<>>]
  ELSE [kind |-> t.kind,
        children |-> [i \in 1..Len(t.items) |-> tree_structure(t.items[i])]]

RECURSIVE num_leaves(_)
num_leaves(d) ==
  IF d.kind = "leaf" THEN 1
  ELSE SumSeq([i \in 1..Len(d.children) |-> num_leaves(d.children[i])])

\* tree_unflatten: the structure d with its leaves replaced, in order, by ls
RECURSIVE tree_unflatten(_, _)
tree_unflatten(d, ls) ==
  IF d.kind = "leaf" THEN ls[1]
  ELSE LET n == [i \in 1..Len(d.children) |-> num_leaves(d.children[i])]
           start(i) == SumSeq(SubSeq(n, 1, i - 1))
       IN  Node(d.kind,
                [i \in 1..Len(d.children) |->
                   tree_unflatten(d.children[i],
                                  SubSeq(ls, start(i) + 1, start(i) + n[i]))])

\* core.primal_dtype_to_tangent_dtype
primal_dtype_to_tangent_dtype(d) == IF d = "i" THEN "float0" ELSE d

\* ------------------------------------------------- the user function
\* A number of the forward pass: a primal p and a tangent t, one entry per
\* direction of the batch (dual numbers; the batch axis is vmap's).
Dual(p, t) == [p |-> p, t |-> t]
Zeros(B) == [i \in 1..B |-> 0]
Const(p, B) == Dual(p, Zeros(B))

\* The forward-mode rules of addition and multiplication, batched over the
\* directions: the primal is computed once, the tangent per direction.
JAdd(a, b) == Dual(a.p + b.p, [i \in 1..Len(a.t) |-> a.t[i] + b.t[i]])
JMul(a, b) == Dual(a.p * b.p, [i \in 1..Len(a.t) |-> a.p * b.t[i] + a.t[i] * b.p])

\* The arithmetic a run of the user function is carried out in: Plain on the
\* values themselves, Jvp(B) on dual numbers carrying B directions.
Plain == [mode |-> "plain", B |-> 0]
Jvp(B) == [mode |-> "jvp", B |-> B]
Zero(ar) == IF ar.mode = "plain" THEN 0 ELSE Const(0, ar.B)
Add(ar, a, b) == IF ar.mode = "plain" THEN a + b ELSE JAdd(a, b)
Mul(ar, a, b) == IF ar.mode = "plain" THEN a * b ELSE JMul(a, b)

RECURSIVE Sum(_, _)
Sum(ar, s) == IF s = <<>> THEN Zero(ar) ELSE Add(ar, Head(s), Sum(ar, Tail(s)))

FnBodies == {"sumsq", "dot", "pair"}

\* The primary output of body b on the scalars xs of the first argument and
\* ys of the second, as a sequence of output leaves [shape, elems]:
\*   sumsq(x, y) = (x ** 2).sum()
\*   dot(x, y)   = x.sum() * y.sum()
\*   pair(x, y)  = ((x ** 2).sum(), x * y.sum())
Primary(b, ar, xs, ys) ==
  LET sq == [k \in 1..Len(xs) |-> Mul(ar, xs[k], xs[k])]
      sx == Sum(ar, xs)
      sy == Sum(ar, ys)
  IN  CASE b = "sumsq" -> << [shape |-> <<>>, elems |-> << Sum(ar, sq) >>] >>
        [] b = "dot"   -> << [shape |-> <<>>, elems |-> << Mul(ar, sx, sy) >>] >>
        [] b = "pair"  -> << [shape |-> <<>>, elems |-> << Sum(ar, sq) >>],
                             [shape |-> << Len(xs) >>,
                              elems |-> [k \in 1..Len(xs) |-> Mul(ar, xs[k], sy)]] >>

\* The auxiliary output: x.sum()
Auxiliary(b, ar, xs) == Sum(ar, xs)

\* The scalars of an argument: its leaves' data, in flattened order
Scalars(arg) ==
  LET ls == tree_leaves(arg) IN Flat([i \in 1..Len(ls) |-> ls[i].data])

NumOut(b) == IF b = "pair" THEN 2 ELSE 1
OutDtype(fun, j) == IF j \in fun.cplx THEN "c" ELSE "f"
NoAux == Leaf("none", <<>>, <<>>)

\* fn(*args): what the user function itself returns
CallFn(fun, args) ==
  LET xs == Scalars(args[1])
      ys == IF Len(args) >= 2 THEN Scalars(args[2]) ELSE <<>>
      out == Primary(fun.body, Plain, xs, ys)
  IN  [value |-> [j \in 1..Len(out) |->
                    Leaf(OutDtype(fun, j), out[j].shape, out[j].elems)],
       aux |-> Leaf(fun.auxDtype, <<>>, << Auxiliary(fun.body, Plain, xs) >>)]

\* ---------------------------------------------------------------- _jvp
\* Mutant: every dtype tested before any shape, in two passes
RECURSIVE ScanDtypes(_, _)
ScanDtypes(ps, ts) ==
  IF ps = <<>> \/ ts = <<>> THEN "none"
  ELSE IF primal_dtype_to_tangent_dtype(Head(ps).dtype) # Head(ts).dtype
       THEN "DtypeMismatchError"
  ELSE ScanDtypes(Tail(ps), Tail(ts))

RECURSIVE ScanShapes(_, _)
ScanShapes(ps, ts) ==
  IF ps = <<>> \/ ts = <<>> THEN "none"
  ELSE IF Head(ps).shape # Head(ts).shape THEN "ShapeMismatchError"
  ELSE ScanShapes(Tail(ps), Tail(ts))

ScanPairsDtypesFirst(ps, ts) ==
  IF ScanDtypes(ps, ts) # "none" THEN ScanDtypes(ps, ts) ELSE ScanShapes(ps, ts)

\* The loop of lines 66-76 over the paired leaves: the first failing test
\* raises (TypeError for a dtype, ValueError for a shape).
RECURSIVE ScanPairs(_, _)
ScanPairs(ps, ts) ==
  IF ps = <<>> \/ ts = <<>> THEN "none"
  ELSE IF primal_dtype_to_tangent_dtype(Head(ps).dtype) # Head(ts).dtype
       THEN "DtypeMismatchError"
  ELSE IF Head(ps).shape # Head(ts).shape THEN "ShapeMismatchError"
  ELSE ScanPairs(Tail(ps), Tail(ts))

\* Lines 55-76: the error _jvp raises before it propagates, or "none".
\* Both TypeErrors of lines 57 and 63 are the ArgumentStructureError.
JvpCheck(primals, tangents) ==
  IF primals.kind \notin {"tuple", "list"} \/ tangents.kind \notin {"tuple", "list"}
  THEN "ArgumentStructureError"
  ELSE IF tree_structure(primals) # tree_structure(tangents)
  THEN "ArgumentStructureError"
  ELSE ScanPairs(tree_leaves(primals), tree_leaves(tangents))

\* The dual numbers of one argument: primal p with tangent t, leaf by leaf.
\* A float0 tangent is the zero tangent.
DualScalars(p, t, B) ==
  LET ps == tree_leaves(p)
      ts == tree_leaves(t)
  IN  Flat([i \in 1..Len(ps) |->
              [e \in 1..Len(ps[i].data) |->
                 Dual(ps[i].data[e],
                      IF ts[i].dtype = "float0" THEN Zeros(B) ELSE ts[i].data[e])]])

ConstScalars(arg, B) ==
  LET xs == Scalars(arg) IN [k \in 1..Len(xs) |-> Const(xs[k], B)]

\* f_partial of argnums_partial: position j of fn's arguments is the k-th
\* dynamic argument when argnums[k] = j, and the closed-over args[j] otherwise.
PartialArg(closure, primals, tangents, B, j) ==
  LET ks == {k \in 1..Len(closure.idx) : closure.idx[k] = j}
  IN  IF j > Len(closure.args) THEN <<>>
      ELSE IF ks = {} THEN ConstScalars(closure.args[j], B)
      ELSE LET k == CHOOSE k \in ks : TRUE
           IN  DualScalars(primals.items[k], tangents.items[k], B)

\* Mutant: the primals passed as the tangents to call_wrapped
JvpRunPrimalsAsTangents(fun, closure, primals, tangents, has_aux, B) ==
  LET pt == tree_unflatten(tree_structure(primals),
              [i \in 1..Len(tree_leaves(primals)) |->
                 LET l == tree_leaves(primals)[i]
                 IN  Leaf(l.dtype, l.shape,
                          [e \in 1..Len(l.data) |-> [d \in 1..B |-> l.data[e]]])])
      xs == PartialArg(closure, primals, pt, B, 1)
      ys == PartialArg(closure, primals, pt, B, 2)
      out == Primary(fun.body, Jvp(B), xs, ys)
  IN  [err |-> "none", calls |-> 1,
       out_primals |-> [j \in 1..Len(out) |->
                          Leaf(OutDtype(fun, j), out[j].shape,
                               [o \in 1..Len(out[j].elems) |-> out[j].elems[o].p])],
       out_tangents |-> [j \in 1..Len(out) |->
                           Leaf(OutDtype(fun, j), out[j].shape,
                                [o \in 1..Len(out[j].elems) |-> out[j].elems[o].t])],
       aux |-> IF has_aux
               THEN Leaf(fun.auxDtype, <<>>, << Auxiliary(fun.body, Jvp(B), xs).p >>)
               ELSE NoAux]

\* Lines 78-90: one run of the function on dual numbers; out_primals and
\* out_tangents are unflattened separately, aux is the primal pass's.
JvpRun(fun, closure, primals, tangents, has_aux, B) ==
  LET xs == PartialArg(closure, primals, tangents, B, 1)
      ys == PartialArg(closure, primals, tangents, B, 2)
      out == Primary(fun.body, Jvp(B), xs, ys)
      out_primals == [j \in 1..Len(out) |->
                        Leaf(OutDtype(fun, j), out[j].shape,
                             [o \in 1..Len(out[j].elems) |-> out[j].elems[o].p])]
      out_tangents == [j \in 1..Len(out) |->
                         Leaf(OutDtype(fun, j), out[j].shape,
                              [o \in 1..Len(out[j].elems) |-> out[j].elems[o].t])]
      aux == Auxiliary(fun.body, Jvp(B), xs)
  IN  [err |-> "none", calls |-> 1,
       out_primals |-> out_primals, out_tangents |-> out_tangents,
       aux |-> IF has_aux THEN Leaf(fun.auxDtype, <<>>, << aux.p >>) ELSE NoAux]

JvpFail(e) ==
  [err |-> e, calls |-> 0, out_primals |-> <<>>, out_tangents |-> <<>>, aux |-> NoAux]

\* _jvp(fun, primals, tangents, has_aux), fun closing over `closure`; B is
\* the number of directions the tangents carry (1 outside vmap).
jvp(fun, closure, primals, tangents, has_aux, B) ==
  LET e == JvpCheck(primals, tangents)
  IN  IF e # "none" THEN JvpFail(e)
      ELSE JvpRun(fun, closure, primals, tangents, has_aux, B)

\* ------------------------------------------------ basis and reassembly
\* The degrees of freedom of a leaf: a no-tangent leaf has none
Dof(l) == IF primal_dtype_to_tangent_dtype(l.dtype) = "float0" THEN 0 ELSE Size(l)

\* The offset of leaf i in the canonical order: the leaves before it
Offset(ls, i) == SumSeq([j \in 1..(i - 1) |-> Dof(ls[j])])

TotalDof(pytree) ==
  LET ls == tree_leaves(pytree) IN SumSeq([i \in 1..Len(ls) |-> Dof(ls[i])])

\* _std_basis(pytree): the D one-hot tangent structures, as one structure
\* whose scalars carry the D directions (the axis vmap maps over).
\* Direction d has its 1 at the scalar of canonical offset d.
std_basis(pytree) ==
  LET ls == tree_leaves(pytree)
      D == TotalDof(pytree)
      hot(i, e) == [d \in 1..D |->
                      IF Dof(ls[i]) > 0 /\ d = Offset(ls, i) + e THEN 1 ELSE 0]
  IN  tree_unflatten(tree_structure(pytree),
        [i \in 1..Len(ls) |->
           Leaf(primal_dtype_to_tangent_dtype(ls[i].dtype), ls[i].shape,
                [e \in 1..Size(ls[i]) |-> hot(i, e)])])

\* _unravel_array_into_pytree(pytree, -1, arr): arr, of shape
\* out_shape + (D,), split along its last axis into the leaves' sub-ranges
\* and each part reshaped to out_shape + leaf shape.
unravel_array_into_pytree(pytree, arr) ==
  LET ls == tree_leaves(pytree)
      D == arr.shape[Len(arr.shape)]
      out_shape == SubSeq(arr.shape, 1, Len(arr.shape) - 1)
      part(i) ==
        Leaf(arr.dtype,
             out_shape \o (IF Dof(ls[i]) > 0 THEN ls[i].shape ELSE << 0 >>),
             [k \in 1..(Prod(out_shape) * Dof(ls[i])) |->
                arr.data[((k - 1) \div Dof(ls[i])) * D
                         + Offset(ls, i) + ((k - 1) % Dof(ls[i])) + 1]])
  IN  tree_unflatten(tree_structure(pytree), [i \in 1..Len(ls) |-> part(i)])

\* Mutant: the tangents stacked along a first axis instead of the last
StackFirst(t, D) ==
  Leaf(t.dtype, t.shape \o << D >>,
       [k \in 1..(Len(t.data) * D) |->
          t.data[((k - 1) % Len(t.data)) + 1][((k - 1) \div Len(t.data)) + 1]])

\* vmap's out_axes = -1 for the tangents: the D directions become the
\* last axis of each output leaf, row-major.
StackLast(t, D) ==
  Leaf(t.dtype, t.shape \o << D >>,
       [k \in 1..(Len(t.data) * D) |-> t.data[((k - 1) \div D) + 1][((k - 1) % D) + 1]])

\* --------------------------------------------------- dtype validation
\* _check_input_dtype_jacfwd(holomorphic, x): TRUE when x is accepted
check_input_dtype_jacfwd(holo, x) == holo \/ x.dtype \in {"f", "c"}

\* _check_output_dtype_jacfwd(holomorphic, x): TRUE when x is accepted
check_output_dtype_jacfwd(holo, x) == holo \/ x.dtype = "f"

\* ------------------------------------------------------- entry point
VARIABLES fun, argnums, holomorphic, has_aux, args,
          pc, err, dyn_args, fnCalls, y, aux, jac, jacobian, result,
          jvp_primals, jvp_tangents, jvp_result,
          seq_done, seq_cols, seq_vals

inputs == << fun, argnums, holomorphic, has_aux, args >>
locals == << dyn_args, fnCalls, y, aux, jac, jacobian, result >>
\* A direct call of _jvp: its arguments and what it returned or raised
direct == << jvp_primals, jvp_tangents, jvp_result >>
\* The sequential reference loop over the basis directions
loop == << seq_done, seq_cols, seq_vals >>
vars == << inputs, pc, err, locals, direct, loop >>

\* ------------------------------------------------------------ mutants
\* Mutant: aux given the out_axes of the tangents: stacked D times
DriverAuxStacked(f, nums, as, dyn, haux) ==
  LET primals == Node("tuple", dyn)
      D == TotalDof(primals)
      closure == [idx |-> [k \in 1..Len(nums.idx) |-> nums.idx[k] + 1], args |-> as]
      r == jvp(f, closure, primals, std_basis(primals), haux, D)
  IN  [err |-> r.err, calls |-> r.calls, y |-> r.out_primals,
       aux |-> IF haux THEN Leaf(r.aux.dtype, << D >>, [d \in 1..D |-> r.aux.data[1]])
               ELSE r.aux,
       jac |-> [j \in 1..Len(r.out_tangents) |-> StackLast(r.out_tangents[j], D)]]

\* Mutant: the primitive called once per direction, fn evaluated each time
DriverPerDirection(f, nums, as, dyn, haux) ==
  LET primals == Node("tuple", dyn)
      D == TotalDof(primals)
      closure == [idx |-> [k \in 1..Len(nums.idx) |-> nums.idx[k] + 1], args |-> as]
      r == jvp(f, closure, primals, std_basis(primals), haux, D)
  IN  [err |-> r.err, calls |-> D * r.calls, y |-> r.out_primals, aux |-> r.aux,
       jac |-> [j \in 1..Len(r.out_tangents) |-> StackLast(r.out_tangents[j], D)]]

\* Mutant: the dtype check mapped over every argument, fixed ones included
InputCheckedAllArgs(dyn, as) == tree_leaves(Node("tuple", as))

\* Mutant: the output dtype check mapped over the auxiliary output too
OutputCheckedWithAux(yv, auxv) == IF auxv = NoAux THEN yv ELSE yv \o << auxv >>

\* Mutant: example_args always the tuple of dynamic arguments
ExampleArgsTuple(nums, dyn) == Node("tuple", dyn)

\* Mutant: the Jacobian reassembled by the arguments' positions, not argnums order
ReassembleJacByPosition(nums, dyn, j) ==
  LET ex == IF nums.single \/ Len(dyn) < 2 \/ nums.idx[1] < nums.idx[2]
            THEN (IF nums.single THEN dyn[1] ELSE Node("tuple", dyn))
            ELSE Node("tuple", << dyn[2], dyn[1] >>)
  IN  [o \in 1..Len(j) |-> unravel_array_into_pytree(ex, j[o])]

\* argnums_partial (line 103): the arguments selected by argnums, in
\* argnums order, always as a tuple; argnums counts from 0
SelectDynArgs(nums, as) == [k \in 1..Len(nums.idx) |-> as[nums.idx[k] + 1]]

\* Line 104: the leaves _check_input_dtype_jacfwd is mapped over
InputChecked(dyn, as) == tree_leaves(Node("tuple", dyn))

\* Line 111: the leaves _check_output_dtype_jacfwd is mapped over
OutputChecked(yv, auxv) == yv

\* Lines 105-110: vmap(pushfwd, out_axes)(_std_basis(dyn_args)): one call of
\* _jvp on the whole basis; y and aux un-stacked (out_axes None), the
\* tangents stacked along a new last axis (out_axes -1).
Driver(f, nums, as, dyn, haux) ==
  LET primals == Node("tuple", dyn)
      D == TotalDof(primals)
      closure == [idx |-> [k \in 1..Len(nums.idx) |-> nums.idx[k] + 1], args |-> as]
      r == jvp(f, closure, primals, std_basis(primals), haux, D)
  IN  [err |-> r.err, calls |-> r.calls, y |-> r.out_primals, aux |-> r.aux,
       jac |-> [j \in 1..Len(r.out_tangents) |-> StackLast(r.out_tangents[j], D)]]

\* Line 112: example_args
ExampleArgs(nums, dyn) == IF nums.single THEN dyn[1] ELSE Node("tuple", dyn)

\* Lines 114 and 116: tree_map(partial(_unravel_array_into_pytree,
\* example_args, -1), jac)
ReassembleJac(nums, dyn, j) ==
  [o \in 1..Len(j) |-> unravel_array_into_pytree(ExampleArgs(nums, dyn), j[o])]

\* Lines 113-116: what jacfun returns
ReturnValue(haux, yv, auxv, jv) ==
  IF haux THEN << << yv, auxv >>, jv >> ELSE << yv, jv >>

CallStages == {"Select-Args", "Validate-Input-Dtypes", "Run-Batched-Jacobian",
               "Validate-Output-Dtypes", "Reassemble", "Return"}

\* value_and_jacfwd(fun, argnums, holomorphic, has_aux), lines 98-99 and 118:
\* _check_callable raises or the function jacfun is returned
ValidateCallable ==
  /\ pc = "init"
  /\ pc' = "Validate-Callable"
  /\ err' = IF fun.callable THEN "none" ELSE "NotCallableError"
  /\ UNCHANGED << inputs, locals >>
  /\ UNCHANGED << direct, loop >>

\* jacfun(*args), lines 102-103.  The returned function can be called once
\* value_and_jacfwd has returned it, and again after a call has ended.
SelectArgs ==
  /\ \/ pc = "Validate-Callable" /\ err = "none"
     \/ pc = "Return"
     \/ pc \in CallStages /\ err # "none"
  /\ pc' = "Select-Args"
  /\ err' = "none"
  /\ dyn_args' = SelectDynArgs(argnums, args)
  /\ fnCalls' = 0
  /\ y' = <<>> /\ aux' = NoAux /\ jac' = <<>> /\ jacobian' = <<>> /\ result' = <<>>
  /\ seq_done' = {} /\ seq_cols' = <<>> /\ seq_vals' = {}
  /\ UNCHANGED << inputs, direct >>

\* Line 104
ValidateInputDtypes ==
  /\ pc = "Select-Args" /\ err = "none"
  /\ pc' = "Validate-Input-Dtypes"
  /\ LET ls == InputChecked(dyn_args, args)
     IN  err' = IF \A i \in 1..Len(ls) : check_input_dtype_jacfwd(holomorphic, ls[i])
               THEN "none" ELSE "InputDtypeError"
  /\ UNCHANGED << inputs, locals >>
  /\ UNCHANGED << direct, loop >>

\* Lines 105-110
RunBatchedJacobian ==
  /\ pc = "Validate-Input-Dtypes" /\ err = "none"
  /\ pc' = "Run-Batched-Jacobian"
  /\ LET r == Driver(fun, argnums, args, dyn_args, has_aux)
     IN  /\ err' = r.err
         /\ fnCalls' = fnCalls + r.calls
         /\ y' = r.y /\ aux' = r.aux /\ jac' = r.jac
  /\ UNCHANGED << inputs, dyn_args, jacobian, result >>
  /\ UNCHANGED << direct, loop >>

\* Line 111
ValidateOutputDtypes ==
  /\ pc = "Run-Batched-Jacobian" /\ err = "none"
  /\ pc' = "Validate-Output-Dtypes"
  /\ LET ls == OutputChecked(y, aux)
     IN  err' = IF \A i \in 1..Len(ls) : check_output_dtype_jacfwd(holomorphic, ls[i])
               THEN "none" ELSE "OutputDtypeError"
  /\ UNCHANGED << inputs, locals >>
  /\ UNCHANGED << direct, loop >>

\* Mutant: reassembly entered without the output dtype check
ReassembleUnchecked ==
  /\ pc = "Run-Batched-Jacobian" /\ err = "none"
  /\ pc' = "Reassemble"
  /\ jacobian' = ReassembleJac(argnums, dyn_args, jac)
  /\ UNCHANGED << inputs, err, dyn_args, fnCalls, y, aux, jac, result >>
  /\ UNCHANGED << direct, loop >>

\* Lines 112-116: the Jacobian is reassembled
Reassemble ==
  /\ pc = "Validate-Output-Dtypes" /\ err = "none"
  /\ pc' = "Reassemble"
  /\ jacobian' = ReassembleJac(argnums, dyn_args, jac)
  /\ UNCHANGED << inputs, err, dyn_args, fnCalls, y, aux, jac, result >>
  /\ UNCHANGED << direct, loop >>

\* Lines 113-116: and returned with the value
Return ==
  /\ pc = "Reassemble" /\ err = "none"
  /\ pc' = "Return"
  /\ result' = ReturnValue(has_aux, y, aux, jacobian)
  /\ UNCHANGED << inputs, err, dyn_args, fnCalls, y, aux, jac, jacobian >>
  /\ UNCHANGED << direct, loop >>

\* ------------------------------------------------------------- inputs
Vec(d, dat) == Leaf(d, << Len(dat) >>, dat)

FloatVecs ==
  UNION { { Vec("f", s) : s \in [1..n -> 0..MaxVal] } : n \in 0..MaxLen }

SecondArg == Vec("f", << 1, 2 >>)

\* Arguments of other dtypes and structures: an integer vector, a complex
\* vector, an empty vector, a tuple holding a vector and a 1 x 2 matrix, a
\* list holding a float and an integer vector.
StructArgs ==
  { Vec("i", << 1, 2 >>), Vec("c", << 1 >>), Vec("f", <<>>), Vec("f", << 1, 2 >>),
    Node("tuple", << Vec("f", << 2 >>), Leaf("f", << 1, 2 >>, << 0, 1 >>) >>),
    Node("list", << Vec("f", << 1, 2 >>), Vec("i", << 1 >>) >>) }

SecondStructArgs ==
  { Vec("i", << 1 >>), Vec("f", << 1, 2 >>),
    Node("tuple", << Vec("f", << 2 >>), Leaf("f", << 1, 2 >>, << 0, 1 >>) >>) }

ArgnumsSet ==
  { [single |-> TRUE, idx |-> << 0 >>], [single |-> TRUE, idx |-> << 1 >>],
    [single |-> FALSE, idx |-> << 0 >>], [single |-> FALSE, idx |-> << 0, 1 >>],
    [single |-> FALSE, idx |-> << 1, 0 >>] }

RealFuns ==
  { [body |-> b, callable |-> TRUE, cplx |-> {}, auxDtype |-> "f"] : b \in FnBodies }

AllFuns ==
  UNION { [body : {b}, callable : {TRUE}, cplx : SUBSET (1..NumOut(b)),
           auxDtype : {"f", "c"}] : b \in FnBodies }

NotCallable == [body |-> "sumsq", callable |-> FALSE, cplx |-> {}, auxDtype |-> "f"]

\* The calls considered: real functions differentiated in their first
\* argument, without aux, on every float vector; functions of every output
\* dtype, with and without aux and under every argnums, on arguments of
\* every dtype and structure; an object that is not callable.
NoDirect ==
  /\ jvp_primals = Node("tuple", <<>>)
  /\ jvp_tangents = Node("tuple", <<>>)
  /\ jvp_result = JvpFail("unused")

NoLoop == seq_done = {} /\ seq_cols = <<>> /\ seq_vals = {}

Init ==
  /\ NoDirect /\ NoLoop
  /\ \/ /\ fun \in RealFuns
        /\ holomorphic = FALSE
        /\ args \in { << x, SecondArg >> : x \in FloatVecs }
        /\ has_aux = FALSE
        /\ argnums = [single |-> TRUE, idx |-> << 0 >>]
     \/ /\ fun \in AllFuns
        /\ holomorphic \in BOOLEAN
        /\ args \in { << x, v >> : x \in StructArgs, v \in SecondStructArgs }
        /\ has_aux \in BOOLEAN
        /\ ~has_aux => fun.auxDtype = "f"
        /\ argnums \in ArgnumsSet
     \/ /\ fun = NotCallable
        /\ holomorphic = FALSE
        /\ args = << Vec("f", << 1, 2 >>), SecondArg >>
        /\ has_aux \in BOOLEAN
        /\ argnums \in ArgnumsSet
  /\ pc = "init"
  /\ err = "none"
  /\ dyn_args = <<>> /\ fnCalls = 0
  /\ y = <<>> /\ aux = NoAux /\ jac = <<>> /\ jacobian = <<>> /\ result = <<>>

Next ==
  \/ ValidateCallable
  \/ SelectArgs
  \/ ValidateInputDtypes
  \/ RunBatchedJacobian
  \/ ValidateOutputDtypes
  \/ Reassemble
  \/ Return

Spec == Init /\ [][Next]_vars

\* ------------------------------------------------- _jvp called directly
MaxDim == 2

PrimalLeaves ==
  { Leaf(d, << n >>, [e \in 1..n |-> 1]) : d \in {"f", "c", "i"}, n \in 1..MaxDim }

TangentLeaves ==
  { Leaf(d, << n >>, [e \in 1..n |-> << 1 >>]) :
      d \in {"f", "c", "i", "float0"}, n \in 1..MaxDim }

PrimalItems == PrimalLeaves \cup { Node("tuple", << Leaf("f", << 1 >>, << 1 >>) >>) }
TangentItems == TangentLeaves \cup { Node("tuple", << Leaf("f", << 1 >>, << << 1 >> >>) >>) }

\* A tuple or a list of one or two items, or a bare array
StructuresOf(items, leaves) ==
  leaves \cup { Node(k, << a >>) : k \in {"tuple", "list"}, a \in items }
         \cup { Node(k, << a, b >>) : k \in {"tuple", "list"}, a \in items, b \in items }

InitJvp ==
  /\ NoLoop
  /\ fun = [body |-> "dot", callable |-> TRUE, cplx |-> {}, auxDtype |-> "f"]
  /\ argnums = [single |-> FALSE, idx |-> << 0, 1 >>]
  /\ holomorphic = FALSE
  /\ has_aux \in BOOLEAN
  /\ args = <<>>
  /\ pc = "direct"
  /\ err = "none"
  /\ dyn_args = <<>> /\ fnCalls = 0
  /\ y = <<>> /\ aux = NoAux /\ jac = <<>> /\ jacobian = <<>> /\ result = <<>>
  /\ jvp_primals \in StructuresOf(PrimalItems, PrimalLeaves)
  /\ jvp_tangents \in StructuresOf(TangentItems, TangentLeaves)
  /\ jvp_result = JvpFail("pending")

\* _jvp(fun, primals, tangents, has_aux) with fun taking the primals as its
\* arguments
CallJvp ==
  /\ jvp_result.err = "pending"
  /\ jvp_result' =
       jvp(fun,
           [idx |-> [k \in 1..(IF jvp_primals.kind = "leaf" THEN 0
                               ELSE Len(jvp_primals.items)) |-> k],
            args |-> IF jvp_primals.kind = "leaf" THEN <<>> ELSE jvp_primals.items],
           jvp_primals, jvp_tangents, has_aux, 1)
  /\ UNCHANGED << inputs, pc, err, locals, jvp_primals, jvp_tangents, loop >>

NextJvp == CallJvp

SpecJvp == InitJvp /\ [][NextJvp]_vars

\* ------------------------------------------- the sequential reference
MaxLoopLen == 2

\* Direction d of a batched tangent structure, as the tangents of one call
Direction(t, d) ==
  LET ls == tree_leaves(t)
  IN  tree_unflatten(tree_structure(t),
        [i \in 1..Len(ls) |->
           Leaf(ls[i].dtype, ls[i].shape,
                [e \in 1..Len(ls[i].data) |-> << ls[i].data[e][d] >>])])

\* The closure f_partial of the current call
Closure == [idx |-> [k \in 1..Len(argnums.idx) |-> argnums.idx[k] + 1], args |-> args]

\* One pass of a loop over the basis directions, in any order: the primitive
\* called on direction d alone, its output tangents kept as column d and its
\* value and aux noted.
SeqStep(d) ==
  /\ pc = "Return"
  /\ d \notin seq_done
  /\ LET P == Node("tuple", dyn_args)
         r == jvp(fun, Closure, P, Direction(std_basis(P), d), has_aux, 1)
     IN  /\ seq_cols' = [c \in DOMAIN seq_cols \cup {d} |->
                           IF c = d THEN r.out_tangents ELSE seq_cols[c]]
         /\ seq_vals' = seq_vals \cup { << r.err, r.out_primals, r.aux >> }
  /\ seq_done' = seq_done \cup {d}
  /\ UNCHANGED << inputs, pc, err, locals, direct >>

SeqLoop == \E d \in 1..TotalDof(Node("tuple", dyn_args)) : SeqStep(d)

LoopVecs ==
  UNION { { Vec("f", s) : s \in [1..n -> 1..MaxVal] } : n \in 0..MaxLoopLen }

InitLoop ==
  /\ NoDirect /\ NoLoop
  /\ fun \in RealFuns
  /\ holomorphic = FALSE
  /\ args \in { << x, SecondArg >> : x \in LoopVecs }
            \cup { << Node("tuple", << Vec("f", << 2 >>), Leaf("f", << 1, 2 >>, << 0, 1 >>) >>),
                      Vec("f", << 1 >>) >> }
  /\ has_aux \in BOOLEAN
  /\ argnums \in ArgnumsSet
  /\ pc = "init"
  /\ err = "none"
  /\ dyn_args = <<>> /\ fnCalls = 0
  /\ y = <<>> /\ aux = NoAux /\ jac = <<>> /\ jacobian = <<>> /\ result = <<>>

NextLoop == Next \/ SeqLoop

SpecLoop == InitLoop /\ [][NextLoop]_vars

\* ------------------------------------------------------------- claims
AfterRun == {"Validate-Output-Dtypes", "Reassemble", "Return"}
Primals == Node("tuple", dyn_args)
NumDirections == TotalDof(Primals)

\* C1: the non-Jacobian part of the result is what fn(*args) returns, in the
\* documented shape: (value, jacobian), or ((value, aux), jacobian) with aux
\* returned once and un-stacked.
C1_ValueIsFn ==
  pc = "Return" =>
    LET r == CallFn(fun, args)
    IN  /\ Len(result) = 2
        /\ IF has_aux THEN result[1] = << r.value, r.aux >>
                      ELSE result[1] = r.value

C1_Witness ==
  /\ pc = "Return" /\ has_aux /\ NumDirections > 1
  /\ result[1][2].shape = <<>>

\* The value and the Jacobian the caller holds
ResultValue == IF has_aux THEN result[1][1] ELSE result[1]
ResultJacobian == result[2]

\* The output tangents for basis direction d, from one call of the primitive
\* on that direction alone
TangentsOf(basis, d) ==
  jvp(fun, Closure, Primals, Direction(basis, d), has_aux, 1).out_tangents

\* The entry of a returned Jacobian leaf structure t at output element o (of
\* n) and canonical input offset d: the leaves' rows o, end to end
JacRow(t, o, n) ==
  LET ls == tree_leaves(t)
  IN  Flat([i \in 1..Len(ls) |->
              LET w == Len(ls[i].data) \div n
              IN  SubSeq(ls[i].data, (o - 1) * w + 1, o * w)])

\* C2: for fn(x) = (x ** 2).sum() the value is the sum of the squares and
\* jacobian[i] = 2 * x[i]; in general the Jacobian entry at output element o
\* and input offset d is the output tangent of o for the basis direction d.
C2_JacobianOfSumSq ==
  pc = "Return" =>
    /\ (fun.body = "sumsq" /\ argnums = [single |-> TRUE, idx |-> << 0 >>]
        /\ args[1].kind = "leaf" /\ args[1].dtype = "f") =>
         LET x == args[1].data
         IN  /\ ResultValue[1].data = << SumSeq([i \in 1..Len(x) |-> x[i] * x[i]]) >>
             /\ ResultJacobian[1].shape = << Len(x) >>
             /\ ResultJacobian[1].data = [i \in 1..Len(x) |-> 2 * x[i]]
    /\ \A j \in 1..Len(ResultJacobian) :
         LET n == Len(ResultValue[j].data)
         IN  \A o \in 1..n : Len(JacRow(ResultJacobian[j], o, n)) = NumDirections
    /\ LET basis == std_basis(Primals)
       IN  \A d \in 1..NumDirections :
             LET t == TangentsOf(basis, d)
             IN  \A j \in 1..Len(ResultJacobian) :
                   LET n == Len(ResultValue[j].data)
                   IN  \A o \in 1..n :
                         JacRow(ResultJacobian[j], o, n)[d] = t[j].data[o][1]

C2_Witness ==
  /\ pc = "Return" /\ fun.body = "sumsq" /\ argnums.single
  /\ args[1] = Vec("f", << 0, 1, 2 >>)
  /\ ResultValue[1].data = << 5 >>
  /\ ResultJacobian[1].data = << 0, 2, 4 >>

ErrorsOf(stage) ==
  CASE stage = "Validate-Callable" -> {"NotCallableError"}
    [] stage = "Validate-Input-Dtypes" -> {"InputDtypeError"}
    [] stage = "Run-Batched-Jacobian" ->
         {"ArgumentStructureError", "DtypeMismatchError", "ShapeMismatchError"}
    [] stage = "Validate-Output-Dtypes" -> {"OutputDtypeError"}
    [] OTHER -> {}

StageChain ==
  { << "Select-Args", "Validate-Input-Dtypes" >>,
    << "Validate-Input-Dtypes", "Run-Batched-Jacobian" >>,
    << "Run-Batched-Jacobian", "Validate-Output-Dtypes" >>,
    << "Validate-Output-Dtypes", "Reassemble" >>,
    << "Reassemble", "Return" >> }

\* A step inside one call: the next stage of the chain, entered only from a
\* stage that did not fail, failing only with its own error
ChainStep ==
  /\ err = "none"
  /\ << pc, pc' >> \in StageChain \cup { << "init", "Validate-Callable" >> }
  /\ err' \in {"none"} \cup ErrorsOf(pc')

\* C3 as stated: every call passes Validate-Callable, Select-Args,
\* Validate-Input-Dtypes, Run-Batched-Jacobian, Validate-Output-Dtypes,
\* Reassemble, Return in this order, none skipped, and a failed stage is the
\* last one of its call.
C3_EveryCallValidatesCallable ==
  [][ \/ ChainStep
      \/ err = "none" /\ pc = "Validate-Callable" /\ pc' = "Select-Args" ]_vars

\* C3, amended: Validate-Callable is passed once, when value_and_jacfwd
\* builds the returned function; every call of the returned function then
\* passes Select-Args, Validate-Input-Dtypes, Run-Batched-Jacobian,
\* Validate-Output-Dtypes, Reassemble, Return in this order, none skipped,
\* and a failed stage is the last one of its call.
C3_StageOrder ==
  [][ \/ ChainStep
      \/ /\ pc' = "Select-Args" /\ err' = "none"
         /\ \/ pc = "Validate-Callable" /\ err = "none"
            \/ pc = "Return"
            \/ pc \in CallStages /\ err # "none" ]_vars

C3_Witness == pc = "Return" /\ err = "none" /\ result # <<>>

\* C4: one call invokes fn exactly once, whatever D and has_aux.
C4_FnEvaluatedOnce ==
  /\ fnCalls <= 1
  /\ pc \in AfterRun => fnCalls = 1
  /\ pc = "Run-Batched-Jacobian" /\ err = "none" => fnCalls = 1

C4_Witness == pc = "Return" /\ NumDirections > 1 /\ has_aux /\ fnCalls = 1

\* Some leaf of a differentiated argument is not of an inexact dtype
IntegerInput ==
  \E k \in 1..Len(argnums.idx) :
     LET ls == tree_leaves(args[argnums.idx[k] + 1])
     IN  \E i \in 1..Len(ls) : ls[i].dtype \notin {"f", "c"}

\* C6: without holomorphic, a non-inexact leaf of a differentiated argument
\* fails the call with InputDtypeError before the driver runs: fn is never
\* evaluated and nothing is returned; fixed arguments are not checked.
C6_InputDtypeRejected ==
  pc \in CallStages \ {"Select-Args"} =>
    IF ~holomorphic /\ IntegerInput
    THEN /\ pc = "Validate-Input-Dtypes" /\ err = "InputDtypeError"
         /\ fnCalls = 0 /\ y = <<>> /\ result = <<>>
    ELSE err # "InputDtypeError"

C6_Witness ==
  /\ err = "InputDtypeError" /\ fnCalls = 0 /\ result = <<>>
  /\ ~holomorphic /\ argnums.idx = << 1 >> /\ args[1].kind = "leaf" /\ args[1].dtype = "f"

\* An integer leaf in a fixed argument does not fail the call
C6_WitnessFixed ==
  /\ pc = "Return" /\ ~holomorphic /\ argnums.idx = << 0 >>
  /\ args[2].kind = "leaf" /\ args[2].dtype = "i"

\* Some leaf of the primary output of fn is not of an inexact real dtype
ComplexOutput ==
  LET v == CallFn(fun, args).value
  IN  \E j \in 1..Len(v) : v[j].dtype # "f"

\* C7: without holomorphic, a primary output leaf that is not inexact real
\* fails the call with OutputDtypeError after the driver has run and before
\* reassembly, and nothing is returned; every leaf of the primary output is
\* checked and the auxiliary output is not.
C7_OutputDtypeRejected ==
  pc \in AfterRun =>
    IF ~holomorphic /\ ComplexOutput
    THEN /\ pc = "Validate-Output-Dtypes" /\ err = "OutputDtypeError"
         /\ fnCalls = 1 /\ jacobian = <<>> /\ result = <<>>
    ELSE err = "none"

C7_Witness ==
  /\ err = "OutputDtypeError" /\ fun.cplx = {2} /\ result = <<>> /\ jacobian = <<>>

\* A complex auxiliary output does not fail the call
C7_WitnessAux ==
  /\ pc = "Return" /\ ~holomorphic /\ has_aux /\ fun.auxDtype = "c"

\* The Jacobian of output leaf j mirrors argument a: the same structure, and
\* each leaf that has tangents of shape output shape + leaf shape
Mirrors(t, a, out_shape) ==
  /\ tree_structure(t) = tree_structure(a)
  /\ LET ls == tree_leaves(a)
         ts == tree_leaves(t)
     IN  \A i \in 1..Len(ls) :
            Dof(ls[i]) > 0 => ts[i].shape = out_shape \o ls[i].shape

C8_WitnessSingle ==
  /\ pc = "Return" /\ argnums.single /\ fun.body = "pair"
  /\ ResultJacobian[2].kind = "leaf" /\ ResultJacobian[2].shape = << 2, 2 >>

\* The leaf and offset basis direction d activates: where its one-hot
\* tangent structure, of leaves tb, holds the 1
Activated(tb, d) ==
  { ie \in UNION { { << i, e >> : e \in 1..Len(tb[i].data) } : i \in 1..Len(tb) } :
      tb[ie[1]].dtype # "float0" /\ tb[ie[1]].data[ie[2]][d] = 1 }

\* C9: the Reassembler inverts the Basis Generator's ordering: the returned
\* Jacobian's trailing input axes, flattened in canonical order, are the raw
\* stacked tangents of shape output shape + (D,), element for element, and
\* the derivative for direction d lands at the leaf and offset d activated.
C9_ReassemblyInvertsBasis ==
  pc \in {"Reassemble", "Return"} =>
    \A j \in 1..Len(jac) :
       LET tb == tree_leaves(std_basis(Primals))
           raw == jac[j]
           n == Len(y[j].data)
           D == NumDirections
           pl == tree_leaves(Primals)
           jl == tree_leaves(jacobian[j])
       IN  /\ raw.shape = y[j].shape \o << D >>
           /\ Len(raw.data) = n * D
           /\ Len(jl) = Len(pl)
           /\ \A o \in 1..n :
                JacRow(jacobian[j], o, n) = SubSeq(raw.data, (o - 1) * D + 1, o * D)
           /\ \A d \in 1..D :
                /\ Cardinality(Activated(tb, d)) = 1
                /\ \A ie \in Activated(tb, d) :
                     LET w == Size(pl[ie[1]])
                     IN  /\ Len(jl[ie[1]].data) = n * w
                         /\ \A o \in 1..n :
                              jl[ie[1]].data[(o - 1) * w + ie[2]]
                                = raw.data[(o - 1) * D + d]

C9_Witness ==
  /\ pc = "Return" /\ fun.body = "pair" /\ argnums.idx = << 1, 0 >>
  /\ args[1].kind = "tuple" /\ args[2].kind = "tuple"
  /\ jac[2].shape = << 3, 6 >>

\* The error the claim names for a pair of arguments: a wrong container or
\* descriptor first, else the decision of the first mismatching pair of leaves
NamedError(p, t) ==
  IF p.kind \notin {"tuple", "list"} \/ t.kind \notin {"tuple", "list"}
  THEN "ArgumentStructureError"
  ELSE IF tree_structure(p) # tree_structure(t) THEN "ArgumentStructureError"
  ELSE LET ps == tree_leaves(p)
           ts == tree_leaves(t)
           wrongDtype(k) == ts[k].dtype # primal_dtype_to_tangent_dtype(ps[k].dtype)
           wrongShape(k) == ts[k].shape # ps[k].shape
           bad == { k \in 1..Len(ps) : wrongDtype(k) \/ wrongShape(k) }
       IN  IF bad = {} THEN "none"
           ELSE LET first == CHOOSE k \in bad : \A m \in bad : k <= m
                IN  IF wrongDtype(first) THEN "DtypeMismatchError"
                    ELSE "ShapeMismatchError"

\* C5: _jvp classifies a bad (primals, tangents) pair before it propagates
\* and fn is not invoked when it fails: ArgumentStructureError for a
\* non-sequence or differing descriptors; otherwise the first mismatching
\* pair of leaves decides, DtypeMismatchError before ShapeMismatchError; no
\* error when no pair mismatches.
C5_JvpClassifiesErrors ==
  jvp_result.err \notin {"pending", "unused"} =>
    /\ jvp_result.err = NamedError(jvp_primals, jvp_tangents)
    /\ jvp_result.err # "none" =>
         jvp_result.calls = 0 /\ jvp_result.out_primals = <<>>
    /\ jvp_result.err = "none" => jvp_result.calls = 1

C5_Witness ==
  /\ jvp_result.err = "ShapeMismatchError" /\ jvp_result.calls = 0
  /\ jvp_primals.kind = "tuple" /\ Len(jvp_primals.items) = 2
  /\ jvp_primals.items[2].kind = "leaf"
  /\ jvp_tangents.items[2].dtype
       # primal_dtype_to_tangent_dtype(jvp_primals.items[2].dtype)

\* Matching arguments: nothing is raised and fn is called once
C5_WitnessNoError == jvp_result.err = "none" /\ jvp_result.calls = 1

\* The columns of the loop stacked along a new trailing axis
SeqStacked(j) ==
  LET n == Len(y[j].data)
      D == NumDirections
  IN  [k \in 1..(n * D) |->
         seq_cols[((k - 1) % D) + 1][j].data[((k - 1) \div D) + 1][1]]

\* C10: the batched run returns what a sequential loop over the basis
\* directions returns, in whatever order the loop takes them: every call of
\* the loop has the batched value and aux, and the columns stacked along a
\* new trailing axis are the batched stacked tangents.
C10_BatchedIsSequential ==
  pc = "Return" =>
    /\ seq_vals \subseteq { << "none", y, aux >> }
    /\ seq_done = 1..NumDirections =>
         \A j \in 1..Len(jac) : SeqStacked(j) = jac[j].data

C10_Witness ==
  /\ pc = "Return" /\ NumDirections > 1 /\ seq_done = 1..NumDirections
  /\ fun.body = "pair" /\ has_aux /\ Len(y[2].data) > 1
====
